---- MODULE Spec2Model ----
(***************************************************************************)
(* Model of src/server.js: the schema cache (getDbMeta), the value         *)
(* encoders (rich, titleProp, safeSelect, safeMultiSelect, and rt, title,  *)
(* select, multiSelect, setIf of the second variant of the file) and the   *)
(* POST /run handler of both variants of the file.                         *)
(*                                                                         *)
(* JavaScript strings are sequences of one-character strings, so that      *)
(* String.prototype.slice and .length are what the code computes.  Other   *)
(* JavaScript values are tagged records [t |-> typeof-like tag, v |-> ..]. *)
(***************************************************************************)
EXTENDS Integers, Sequences, FiniteSets, TLC

VARIABLES
    dbs,        \* external store: database id -> its property definitions (db.properties, in entry order)
    pages,      \* external store: the records created so far
    cache,      \* cache.dbMeta: database id -> meta, defined on the ids that are cached
    cacheSets,  \* database id -> how many times cache.dbMeta.set ran for it
    req,        \* per request: position in the handler and its local variables
    calls,      \* per request: the external calls it issued, in order
    fails,      \* how many external calls failed so far
    encIn,      \* input of the encoder under test
    encOut      \* output of the encoder under test

vars == <<dbs, pages, cache, cacheSets, req, calls, fails, encIn, encOut>>

-----------------------------------------------------------------------------
(* Bounds *)

NumReq == 2        \* requests of clients that do not wait for each other
NumSeq == 1        \* requests of a client that waits for each answer
MaxFail == 1       \* external calls that fail
MaxLen == 3        \* length of the lists given to safeMultiSelect
Extra == 2         \* how far beyond a maximum the longest input texts go

-----------------------------------------------------------------------------
(* JavaScript values *)

Str(s) == [t |-> "string", v |-> s]
Bool(b) == [t |-> "boolean", v |-> b]
Num(n) == [t |-> "number", v |-> n]
Arr(a) == [t |-> "array", v |-> a]
Null == [t |-> "null"]
Undef == [t |-> "undefined"]

Empty == Str(<< >>)

\* a plain object: a record of its properties, none of them named t
IsObject(x) == "t" \notin DOMAIN x

\* Truthiness: !!x
Truthy(x) ==
    CASE IsObject(x) -> TRUE
      [] x.t = "string" -> Len(x.v) > 0
      [] x.t = "boolean" -> x.v
      [] x.t = "number" -> x.v # 0
      [] x.t = "array" -> TRUE
      [] OTHER -> FALSE

\* x ?? d
Coalesce(x, d) == IF ~IsObject(x) /\ x.t \in {"null", "undefined"} THEN d ELSE x

\* x || d
OrElse(x, d) == IF Truthy(x) THEN x ELSE d

Digit(n) == <<"0", "1", "2", "3", "4", "5", "6", "7", "8", "9">>[n + 1]

RECURSIVE Digits(_)
Digits(n) == IF n < 10 THEN <<Digit(n)>> ELSE Digits(n \div 10) \o <<Digit(n % 10)>>

RECURSIVE JoinStr(_, _)
\* Array.prototype.join over an array of character sequences
JoinStr(a, sep) ==
    IF Len(a) = 0 THEN << >>
    ELSE IF Len(a) = 1 THEN a[1]
    ELSE a[1] \o sep \o JoinStr(Tail(a), sep)

RECURSIVE ToStr(_)
\* String(x), as a character sequence
ToStr(x) ==
    CASE x.t = "string" -> x.v
      [] x.t = "boolean" -> IF x.v THEN <<"t", "r", "u", "e">> ELSE <<"f", "a", "l", "s", "e">>
      [] x.t = "number" -> IF x.v < 0 THEN <<"-">> \o Digits(-x.v) ELSE Digits(x.v)
      [] x.t = "null" -> <<"n", "u", "l", "l">>
      [] x.t = "undefined" -> <<"u", "n", "d", "e", "f", "i", "n", "e", "d">>
      [] x.t = "array" ->
            JoinStr([i \in 1..Len(x.v) |->
                        IF x.v[i].t \in {"null", "undefined"} THEN << >> ELSE ToStr(x.v[i])],
                    <<",">>)

\* a slice that keeps one character too many
SliceOneMore(s, max) == SubSeq(s, 1, IF Len(s) < max + 1 THEN Len(s) ELSE max + 1)

\* s.slice(0, max) for max >= 0
Slice(s, max) == SubSeq(s, 1, IF Len(s) < max THEN Len(s) ELSE max)

-----------------------------------------------------------------------------
(* Property builders, first variant of the file *)

RICH_MAX == 1900
TITLE_MAX == 120

rich(text, max) ==
    [rich_text |-> << [text |-> [content |-> Slice(ToStr(Coalesce(text, Empty)), max)]] >>]

titleProp(text, max) ==
    [title |-> << [text |-> [content |-> Slice(ToStr(Coalesce(text, Empty)), max)]] >>]

dateProp(iso) == [date |-> [start |-> iso]]

\* Set.prototype.has on a set of option names
SetHas(set, v) == v.t = "string" /\ v.v \in set

\* a safeSelect that does not look the value up in the option set
UnsafeSelect(meta, propName, value) ==
    IF ~Truthy(value) THEN Null
    ELSE IF propName \notin DOMAIN meta.selectOptions THEN Null
    ELSE [select |-> [name |-> value]]

safeSelect(meta, propName, value) ==
    IF ~Truthy(value) THEN Null
    ELSE IF propName \notin DOMAIN meta.selectOptions THEN Null
    ELSE IF ~SetHas(meta.selectOptions[propName], value) THEN Null
    ELSE [select |-> [name |-> value]]

\* a safeMultiSelect that rejects the whole list when one value is not an option
AllOrNothingMultiSelect(meta, propName, values) ==
    IF ~Truthy(values) \/ values.t # "array" \/ Len(values.v) = 0 THEN Null
    ELSE IF propName \notin DOMAIN meta.selectOptions THEN Null
    ELSE LET set == meta.selectOptions[propName]
         IN  IF \A i \in 1..Len(values.v) : SetHas(set, values.v[i])
             THEN [multi_select |-> [i \in 1..Len(values.v) |-> [name |-> values.v[i]]]]
             ELSE Null

safeMultiSelect(meta, propName, values) ==
    IF ~Truthy(values) \/ values.t # "array" \/ Len(values.v) = 0 THEN Null
    ELSE IF propName \notin DOMAIN meta.selectOptions THEN Null
    ELSE LET set == meta.selectOptions[propName]
             kept == SelectSeq(values.v, LAMBDA v : v.t = "string" /\ SetHas(set, v))
             filtered == [i \in 1..Len(kept) |-> [name |-> kept[i]]]
         IN  IF Len(filtered) = 0 THEN Null ELSE [multi_select |-> filtered]

-----------------------------------------------------------------------------
(* Property builders, second variant of the file *)

rt(text) ==
    [rich_text |-> << [text |-> [content |-> Slice(ToStr(OrElse(text, Empty)), 1900)]] >>]

title(text) ==
    [title |-> << [text |-> [content |-> Slice(ToStr(OrElse(text, Empty)), 120)]] >>]

select(name) == IF Truthy(name) THEN [select |-> [name |-> name]] ELSE Undef

multiSelect(names) ==
    LET kept == SelectSeq(OrElse(names, Arr(<< >>)).v, Truthy)
    IN  [multi_select |-> [i \in 1..Len(kept) |-> [name |-> kept[i]]]]

\* obj after setIf(obj, key, value)
setIf(obj, key, value) ==
    IF "t" \in DOMAIN value /\ value.t \in {"undefined", "null"} THEN obj
    ELSE [k \in DOMAIN obj \cup {key} |-> IF k = key THEN value ELSE obj[k]]

-----------------------------------------------------------------------------
(* Database ids (the four environment variables) and literal strings *)

DB_JOURNAL == "journal"
DB_DOCTRINE == "doctrine"
DB_PROJETS == "projets"
DB_DECISIONS == "decisions"

DbIds == {DB_JOURNAL, DB_DOCTRINE, DB_PROJETS, DB_DECISIONS}

RunIA == <<"R", "u", "n", " ", "I", "A">>
V1 == <<"V", "1">>
Directeur == <<"D", "i", "r", "e", "c", "t", "e", "u", "r">>
NowIso == Str(<<"2", "0", "2", "6">>)

\* obj.f, undefined when obj has no property f
Get(obj, f) == IF f \in DOMAIN obj THEN obj[f] ELSE Undef

-----------------------------------------------------------------------------
(* Schema cache: what getDbMeta computes from a retrieved database *)

\* a property definition of db.properties: name, type, and the option names of a choice type
Def(name, type, options) == [name |-> name, type |-> type, options |-> options]

\* a title scan that falls back to the first property instead of finding none
FirstTitleOrFirst(entries) ==
    IF \E i \in 1..Len(entries) : entries[i].type = "title"
    THEN CHOOSE i \in 1..Len(entries) :
            /\ entries[i].type = "title"
            /\ \A j \in 1..(i - 1) : entries[j].type # "title"
    ELSE 1

\* index of the first entry of type "title", 0 when there is none
FirstTitleIndex(entries) ==
    IF \E i \in 1..Len(entries) : entries[i].type = "title"
    THEN CHOOSE i \in 1..Len(entries) :
            /\ entries[i].type = "title"
            /\ \A j \in 1..(i - 1) : entries[j].type # "title"
    ELSE 0

HasTitle(entries) == FirstTitleIndex(entries) # 0

EntryNamed(entries, n) == entries[CHOOSE i \in 1..Len(entries) : entries[i].name = n]

Names(entries) == {entries[i].name : i \in 1..Len(entries)}

\* the meta object getDbMeta builds; defined when HasTitle(entries)
MetaOf(entries) ==
    [titleProp |-> entries[FirstTitleIndex(entries)].name,
     props |-> [n \in Names(entries) |-> [type |-> EntryNamed(entries, n).type]],
     selectOptions |->
        [n \in {m \in Names(entries) : EntryNamed(entries, m).type \in {"select", "multi_select"}}
            |-> {EntryNamed(entries, n).options[i] : i \in 1..Len(EntryNamed(entries, n).options)}]]

\* meta.props[name]?.type
PropType(meta, name) == IF name \in DOMAIN meta.props THEN meta.props[name].type ELSE "undefined"

\* props with props[key] = value
Put(props, key, value) == [k \in DOMAIN props \cup {key} |-> IF k = key THEN value ELSE props[k]]

\* if (cond) props[key] = value
PutIf(cond, props, key, value) == IF cond THEN Put(props, key, value) ELSE props

\* if (v) props[key] = v, for the result v of safeSelect / safeMultiSelect
PutSel(props, key, v) == IF "t" \in DOMAIN v /\ v.t = "null" THEN props ELSE Put(props, key, v)

NoProps == [k \in {} |-> Null]

-----------------------------------------------------------------------------
(* Property sets of the first variant's POST /run *)

\* (data.prochaines_actions || []).join(" | ")
NextActions(data) ==
    LET a == OrElse(Get(data, "prochaines_actions"), Arr(<< >>)).v
    IN  Str(JoinStr([i \in 1..Len(a) |-> ToStr(a[i])], <<" ", "|", " ">>))

JournalProps(m, demande_client, data) ==
    LET p0 == Put(NoProps, m.titleProp, titleProp(OrElse(demande_client, Str(RunIA)), TITLE_MAX))
        p1 == PutIf(PropType(m, "Date") = "date", p0, "Date", dateProp(NowIso))
        p2 == PutIf(PropType(m, "Resultat produit") = "rich_text", p1, "Resultat produit",
                    rich(Get(data, "livrable_final"), RICH_MAX))
        p3 == PutIf(PropType(m, "Decision prise") = "rich_text", p2, "Decision prise",
                    rich(Get(data, "decision_directeur"), RICH_MAX))
        p4 == PutIf(PropType(m, "Prochaine action") = "rich_text", p3, "Prochaine action",
                    rich(NextActions(data), 1900))
        ag == SelectSeq(<<Str(Directeur), Get(data, "domaine")>>, Truthy)
    IN  IF PropType(m, "Agents mobilises") = "multi_select"
        THEN PutSel(p4, "Agents mobilises", safeMultiSelect(m, "Agents mobilises", Arr(ag)))
        ELSE p4

DoctrineProps(m, d) ==
    LET p0 == Put(NoProps, m.titleProp, titleProp(Get(d, "titre"), TITLE_MAX))
        p1 == PutIf(PropType(m, "Contenu") = "rich_text", p0, "Contenu",
                    rich(Get(d, "contenu"), RICH_MAX))
        p2 == PutIf(PropType(m, "Version") = "rich_text", p1, "Version",
                    rich(Coalesce(Get(d, "version"), Str(V1)), RICH_MAX))
        p3 == IF PropType(m, "Type") = "select"
              THEN PutSel(p2, "Type", safeSelect(m, "Type", Get(d, "categorie")))
              ELSE p2
    IN  PutIf(PropType(m, "Actif") = "checkbox", p3, "Actif",
              [checkbox |-> Truthy(Get(d, "actif"))])

DecisionProps(m, s) ==
    LET p0 == Put(NoProps, m.titleProp, titleProp(Get(s, "titre"), TITLE_MAX))
        p1 == PutIf(PropType(m, "Date") = "date", p0, "Date", dateProp(NowIso))
        p2 == PutIf(PropType(m, "Justification") = "rich_text", p1, "Justification",
                    rich(Get(s, "justification"), RICH_MAX))
        p3 == PutIf(PropType(m, "Impact") = "rich_text", p2, "Impact",
                    rich(Get(s, "impact"), RICH_MAX))
        p4 == IF PropType(m, "Statut") = "select"
              THEN PutSel(p3, "Statut", safeSelect(m, "Statut", Get(s, "statut")))
              ELSE p3
    IN  IF PropType(m, "Domaine") = "select"
        THEN PutSel(p4, "Domaine", safeSelect(m, "Domaine", Get(s, "domaine")))
        ELSE p4

ProjetProps(m, p) ==
    LET p0 == Put(NoProps, m.titleProp, titleProp(Get(p, "titre"), TITLE_MAX))
        p1 == PutIf(PropType(m, "Objectif") = "rich_text", p0, "Objectif",
                    rich(Get(p, "objectif"), RICH_MAX))
        p2 == IF PropType(m, "Statut") = "select"
              THEN PutSel(p1, "Statut", safeSelect(m, "Statut", Get(p, "statut")))
              ELSE p1
        p3 == IF PropType(m, "Priorite") = "select"
              THEN PutSel(p2, "Priorite", safeSelect(m, "Priorite", Get(p, "priorite")))
              ELSE p2
    IN  IF PropType(m, "Domaine") = "select"
        THEN PutSel(p3, "Domaine", safeSelect(m, "Domaine", Get(p, "domaine")))
        ELSE p3

-----------------------------------------------------------------------------
(* The external workspace: the property definitions of the four databases *)

OptA == <<"A">>
OptB == <<"B">>
OptC == <<"C">>

\* every property the first variant looks for exists with the type it expects
SchemaFull ==
    [id \in DbIds |->
        CASE id = DB_JOURNAL ->
                <<Def("Nom", "title", << >>), Def("Date", "date", << >>),
                  Def("Resultat produit", "rich_text", << >>),
                  Def("Decision prise", "rich_text", << >>),
                  Def("Prochaine action", "rich_text", << >>),
                  Def("Agents mobilises", "multi_select", <<Directeur, OptB>>)>>
          [] id = DB_DOCTRINE ->
                <<Def("Nom", "title", << >>), Def("Contenu", "rich_text", << >>),
                  Def("Version", "rich_text", << >>), Def("Type", "select", <<OptA, OptB>>),
                  Def("Actif", "checkbox", << >>)>>
          [] id = DB_DECISIONS ->
                <<Def("Nom", "title", << >>), Def("Date", "date", << >>),
                  Def("Justification", "rich_text", << >>), Def("Impact", "rich_text", << >>),
                  Def("Statut", "select", <<OptA>>), Def("Domaine", "select", <<OptA, OptB>>)>>
          [] id = DB_PROJETS ->
                <<Def("Nom", "title", << >>), Def("Objectif", "rich_text", << >>),
                  Def("Statut", "select", <<OptA>>), Def("Priorite", "select", <<OptA>>),
                  Def("Domaine", "select", <<OptA>>)>>]

\* every database has a title property only
SchemaMin == [id \in DbIds |-> <<Def("Name", "title", << >>)>>]

\* the properties exist under other types, and the title is not the first entry
SchemaDrift ==
    [id \in DbIds |->
        CASE id = DB_JOURNAL ->
                <<Def("Date", "rich_text", << >>), Def("Titre", "title", << >>),
                  Def("Resultat produit", "select", <<OptA>>),
                  Def("Agents mobilises", "select", <<Directeur>>)>>
          [] id = DB_DOCTRINE ->
                <<Def("Type", "multi_select", <<OptA>>), Def("Titre", "title", << >>),
                  Def("Contenu", "checkbox", << >>), Def("Actif", "rich_text", << >>)>>
          [] id = DB_DECISIONS ->
                <<Def("Titre", "title", << >>), Def("Statut", "rich_text", << >>),
                  Def("Date", "date", << >>)>>
          [] id = DB_PROJETS ->
                <<Def("Titre", "title", << >>), Def("Priorite", "multi_select", <<OptA>>),
                  Def("Objectif", "rich_text", << >>)>>]

\* the doctrine database has no title-typed property
SchemaNoTitle ==
    [SchemaFull EXCEPT ![DB_DOCTRINE] =
        <<Def("Contenu", "rich_text", << >>), Def("Type", "select", <<OptA>>)>>]

Schemas == {SchemaFull, SchemaMin, SchemaDrift, SchemaNoTitle}

-----------------------------------------------------------------------------
(* Request bodies and model outputs *)

Req == 1..(IF NumSeq > NumReq THEN NumSeq ELSE NumReq)

Demandes == {Empty, Str(<<"q">>)}

ItemDoctrineA ==
    [titre |-> Str(<<"T">>), categorie |-> Str(OptA), contenu |-> Str(<<"c">>), actif |-> Bool(TRUE)]
ItemDoctrineE ==
    [titre |-> Empty, categorie |-> Str(OptC), contenu |-> Empty, actif |-> Bool(FALSE)]
ItemDecision ==
    [titre |-> Empty, statut |-> Str(OptC), domaine |-> Str(OptB),
     justification |-> Str(<<"j">>), impact |-> Str(<<"i">>)]
ItemProjet ==
    [titre |-> Str(<<"P">>), objectif |-> Str(<<"o">>), statut |-> Str(OptA),
     priorite |-> Str(OptC), domaine |-> Empty]

DataOf(domaine, doctrine, decisions, projets) ==
    [livrable_final |-> Str(<<"L">>), decision_directeur |-> Str(<<"d">>),
     domaine |-> domaine, prochaines_actions |-> Arr(<<Str(<<"x">>), Str(<<"y">>)>>),
     ecritures_notion |->
        [doctrine |-> Arr(doctrine), decisions |-> Arr(decisions), projets |-> Arr(projets)]]

\* the parsed outputs of the model the requests may get
DataChoices ==
    {DataOf(Str(OptB), << >>, << >>, << >>),
     DataOf(Str(OptC), <<ItemDoctrineA>>, <<ItemDecision>>, <<ItemProjet>>),
     DataOf(Empty, <<ItemDoctrineE, ItemDoctrineA>>, << >>, << >>)}

\* the inputs of the requests that run concurrently
RaceDemandes == {Str(<<"q">>)}
RaceData == {DataOf(Str(OptC), <<ItemDoctrineA>>, << >>, << >>)}

NoData == [k \in {} |-> Null]
NoMetas == [k \in {} |-> Null]

IdleReq ==
    [pc |-> "idle", demande_client |-> Empty, data |-> NoData,
     lk |-> [id \in DbIds |-> "none"], metas |-> NoMetas, k |-> 0, res |-> "none"]

\* (x || []) of an array-valued field
ArrOf(x) == OrElse(x, Arr(<< >>)).v

-----------------------------------------------------------------------------
(* The create calls of one POST /run, first variant, in the order of the code *)

\* a handler that writes the decisions before the doctrine
WritesDecisionsFirst(data) ==
    LET e == Get(data, "ecritures_notion")
        doc == ArrOf(Get(e, "doctrine"))
        dec == ArrOf(Get(e, "decisions"))
        prj == ArrOf(Get(e, "projets"))
    IN  <<[db |-> DB_JOURNAL, item |-> NoData]>>
        \o [i \in 1..Len(dec) |-> [db |-> DB_DECISIONS, item |-> dec[i]]]
        \o [i \in 1..Len(doc) |-> [db |-> DB_DOCTRINE, item |-> doc[i]]]
        \o [i \in 1..Len(prj) |-> [db |-> DB_PROJETS, item |-> prj[i]]]

Writes(data) ==
    LET e == Get(data, "ecritures_notion")
        doc == ArrOf(Get(e, "doctrine"))
        dec == ArrOf(Get(e, "decisions"))
        prj == ArrOf(Get(e, "projets"))
    IN  <<[db |-> DB_JOURNAL, item |-> NoData]>>
        \o [i \in 1..Len(doc) |-> [db |-> DB_DOCTRINE, item |-> doc[i]]]
        \o [i \in 1..Len(dec) |-> [db |-> DB_DECISIONS, item |-> dec[i]]]
        \o [i \in 1..Len(prj) |-> [db |-> DB_PROJETS, item |-> prj[i]]]

WriteProps(w, metas, demande_client, data) ==
    CASE w.db = DB_JOURNAL -> JournalProps(metas[DB_JOURNAL], demande_client, data)
      [] w.db = DB_DOCTRINE -> DoctrineProps(metas[DB_DOCTRINE], w.item)
      [] w.db = DB_DECISIONS -> DecisionProps(metas[DB_DECISIONS], w.item)
      [] w.db = DB_PROJETS -> ProjetProps(metas[DB_PROJETS], w.item)

\* the content of the title-typed value of a property set, << >> when it has none
TitleOf(props) ==
    IF \E k \in DOMAIN props : "title" \in DOMAIN props[k]
    THEN (props[CHOOSE k \in DOMAIN props : "title" \in DOMAIN props[k]]).title[1].text.content
    ELSE << >>

\* a record of that database with that title is in the store
Exists(db, props) == \E p \in pages : p.db = db /\ TitleOf(p.props) = TitleOf(props)

\* notion.pages.create({parent: {database_id: db}, properties: props}), as issued
CreateCall(db, props) ==
    [op |-> "create", db |-> db, props |-> props, existed |-> Exists(db, props),
     status |-> "inflight"]

QueryCall(db) == [op |-> "query", db |-> db]
RetrieveCall(db) == [op |-> "retrieve", db |-> db]
ModelCall == [op |-> "model"]
\* the model call once it returned an output text that JSON.parse rejects
NotJson == [op |-> "model", out |-> "notjson"]

-----------------------------------------------------------------------------
(* getDbMeta *)

LookupOrder == <<DB_JOURNAL, DB_DOCTRINE, DB_PROJETS, DB_DECISIONS>>

\* a getDbMeta that does not look into the cache
NeverHas(c, id) == FALSE

\* cache.dbMeta.has(database_id)
CacheHas(c, id) == id \in DOMAIN c

\* a cache whose second write of an entry does not store what was fetched
CacheSetStale(c, id, meta) ==
    [k \in DOMAIN c \cup {id} |->
        IF k # id THEN c[k]
        ELSE IF id \in DOMAIN c THEN [meta EXCEPT !.titleProp = "?"] ELSE meta]

\* cache.dbMeta after cache.dbMeta.set(database_id, meta)
CacheSet(c, id, meta) == [k \in DOMAIN c \cup {id} |-> IF k = id THEN meta ELSE c[k]]

\* the retrieve calls the four getDbMeta calls of Promise.all issue, in call order
Misses(c) == SelectSeq(LookupOrder, LAMBDA id : ~CacheHas(c, id))

-----------------------------------------------------------------------------
(* POST /run, first variant *)

\* the handler has answered: its locals are gone; of its getDbMeta calls remain those
\* still waiting for their retrieve, and the one whose throw made Promise.all reject
Answered(rq, res) ==
    [IdleReq EXCEPT !.pc = "done", !.res = res, !.k = rq.k,
                    !.lk = [id \in DbIds |-> IF rq.lk[id] \in {"wait", "err"} THEN rq.lk[id] ELSE "none"]]

\* the handler's catch: res.status(500).json({ok: false, error})
Failed(rq) == Answered(rq, "fail")

\* the request issues its next create call, or answers {ok: true} after the last one
Proceed(r, rq, log) ==
    LET ws == Writes(rq.data)
    IN  IF rq.k < Len(ws)
        THEN /\ req' = [req EXCEPT ![r] = [rq EXCEPT !.pc = "create"]]
             /\ calls' = [calls EXCEPT ![r] =
                    Append(log, CreateCall(ws[rq.k + 1].db,
                        WriteProps(ws[rq.k + 1], rq.metas, rq.demande_client, rq.data)))]
        ELSE /\ req' = [req EXCEPT ![r] = Answered(rq, "ok")]
             /\ calls' = [calls EXCEPT ![r] = log]

\* the request arrives; loadMemory issues its three queries
Accept(r, demandes) ==
    /\ req[r].pc = "idle"
    /\ \A q \in Req : q < r => req[q].pc # "idle"
    /\ \E d \in demandes :
        req' = [req EXCEPT ![r].pc = "memory", ![r].demande_client = d]
    /\ calls' = [calls EXCEPT ![r] =
            <<QueryCall(DB_DOCTRINE), QueryCall(DB_PROJETS), QueryCall(DB_DECISIONS)>>]
    /\ UNCHANGED <<dbs, pages, cache, cacheSets, fails, encIn, encOut>>

\* requests of clients that do not wait for each other
Receive(r) == r <= NumReq /\ Accept(r, RaceDemandes)

\* requests of a client that waits for the answer before it sends the next
ReceiveSeq(r) ==
    /\ r <= NumSeq
    /\ \A q \in Req : q < r => req[q].pc = "done"
    /\ Accept(r, Demandes)

\* the three queries answered; the model is called
MemoryOk(r) ==
    /\ req[r].pc = "memory"
    /\ req' = [req EXCEPT ![r].pc = "model"]
    /\ calls' = [calls EXCEPT ![r] = Append(@, ModelCall)]
    /\ UNCHANGED <<dbs, pages, cache, cacheSets, fails, encIn, encOut>>

\* a query fails: loadMemory throws
MemoryFail(r) ==
    /\ req[r].pc = "memory"
    /\ fails < MaxFail
    /\ fails' = fails + 1
    /\ req' = [req EXCEPT ![r] = Failed(@)]
    /\ UNCHANGED <<dbs, pages, cache, cacheSets, calls, encIn, encOut>>

\* openai.responses.create throws
ModelFail(r) ==
    /\ req[r].pc = "model"
    /\ fails < MaxFail
    /\ fails' = fails + 1
    /\ req' = [req EXCEPT ![r] = Failed(@)]
    /\ UNCHANGED <<dbs, pages, cache, cacheSets, calls, encIn, encOut>>

\* a handler that writes the journal although the output text is not JSON
ModelBadJsonWrites(r) ==
    /\ req[r].pc = "model"
    /\ req' = [req EXCEPT ![r].pc = "create"]
    /\ calls' = [calls EXCEPT ![r] =
            Append([@ EXCEPT ![Len(@)] = NotJson], CreateCall(DB_JOURNAL, NoProps))]
    /\ UNCHANGED <<dbs, pages, cache, cacheSets, fails, encIn, encOut>>

\* the output text is not JSON: JSON.parse throws, and the handler answers 500
ModelBadJson(r) ==
    /\ req[r].pc = "model"
    /\ req' = [req EXCEPT ![r] = Failed(@)]
    /\ calls' = [calls EXCEPT ![r][Len(calls[r])] = NotJson]
    /\ UNCHANGED <<dbs, pages, cache, cacheSets, fails, encIn, encOut>>

\* the output parses; the four getDbMeta calls start, each answering from the cache
\* or issuing a retrieve; with all four cached the journal create follows at once
Parsed(r, choices) ==
    /\ req[r].pc = "model"
    /\ \E d \in choices :
        LET hit == {id \in DbIds : CacheHas(cache, id)}
            rq == [req[r] EXCEPT
                    !.pc = "lookups", !.data = d,
                    !.lk = [id \in DbIds |-> IF id \in hit THEN "ok" ELSE "wait"],
                    !.metas = [id \in hit |-> cache[id]]]
            log == calls[r] \o [i \in 1..Len(Misses(cache)) |-> RetrieveCall(Misses(cache)[i])]
        IN  IF hit = DbIds
            THEN Proceed(r, rq, log)
            ELSE req' = [req EXCEPT ![r] = rq] /\ calls' = [calls EXCEPT ![r] = log]
    /\ UNCHANGED <<dbs, pages, cache, cacheSets, fails, encIn, encOut>>

ModelOk(r) == Parsed(r, RaceData)

ModelOkSeq(r) == Parsed(r, DataChoices)

\* a retrieve answers: getDbMeta throws on a database without title property,
\* otherwise stores the meta; Promise.all settles on the first throw or the last meta
RetrieveOk(r, id) ==
    /\ req[r].lk[id] = "wait"
    /\ IF ~HasTitle(dbs[id])
       THEN /\ req' = [req EXCEPT ![r] =
                    IF @.pc = "lookups" THEN Failed([@ EXCEPT !.lk[id] = "err"])
                    ELSE [@ EXCEPT !.lk[id] = "none"]]
            /\ UNCHANGED <<cache, cacheSets, calls>>
       ELSE LET meta == MetaOf(dbs[id])
                rq == IF req[r].pc = "lookups"
                      THEN [req[r] EXCEPT
                              !.lk[id] = "ok",
                              !.metas = [k \in DOMAIN @ \cup {id} |-> IF k = id THEN meta ELSE @[k]]]
                      ELSE [req[r] EXCEPT !.lk[id] = "none"]
            IN  /\ cache' = CacheSet(cache, id, meta)
                /\ cacheSets' = [cacheSets EXCEPT ![id] = @ + 1]
                /\ IF rq.pc = "lookups" /\ \A j \in DbIds : rq.lk[j] = "ok"
                   THEN Proceed(r, rq, calls[r])
                   ELSE req' = [req EXCEPT ![r] = rq] /\ UNCHANGED calls
    /\ UNCHANGED <<dbs, pages, fails, encIn, encOut>>

\* a getDbMeta that stores an entry without content when its retrieve fails
RetrieveFailCached(r, id) ==
    /\ req[r].lk[id] = "wait"
    /\ fails < MaxFail
    /\ fails' = fails + 1
    /\ cache' = CacheSet(cache, id, [titleProp |-> ""])
    /\ req' = [req EXCEPT ![r] =
            IF @.pc = "lookups" THEN Failed([@ EXCEPT !.lk[id] = "err"])
            ELSE [@ EXCEPT !.lk[id] = "none"]]
    /\ UNCHANGED <<dbs, pages, cacheSets, calls, encIn, encOut>>

\* a retrieve fails: getDbMeta throws
RetrieveFail(r, id) ==
    /\ req[r].lk[id] = "wait"
    /\ fails < MaxFail
    /\ fails' = fails + 1
    /\ req' = [req EXCEPT ![r] =
            IF @.pc = "lookups" THEN Failed([@ EXCEPT !.lk[id] = "err"])
            ELSE [@ EXCEPT !.lk[id] = "none"]]
    /\ UNCHANGED <<dbs, pages, cache, cacheSets, calls, encIn, encOut>>

\* the create call in flight succeeds: the record is in the store
CreateOk(r) ==
    /\ req[r].pc = "create"
    /\ LET n == Len(calls[r])
           c == calls[r][n]
       IN  /\ pages' = pages \cup {[db |-> c.db, props |-> c.props, by |-> r, n |-> req[r].k + 1]}
           /\ Proceed(r, [req[r] EXCEPT !.k = @ + 1], [calls[r] EXCEPT ![n].status = "ok"])
    /\ UNCHANGED <<dbs, cache, cacheSets, fails, encIn, encOut>>

\* a handler that issues a failed create call again
CreateFailRetry(r) ==
    /\ req[r].pc = "create"
    /\ fails < MaxFail
    /\ fails' = fails + 1
    /\ calls' = [calls EXCEPT ![r] =
            Append([@ EXCEPT ![Len(@)].status = "failed"],
                   [@[Len(@)] EXCEPT !.existed = Exists(@[Len(@)].db, @[Len(@)].props)])]
    /\ UNCHANGED <<dbs, pages, cache, cacheSets, req, encIn, encOut>>

\* a handler that goes on with the next item after a failed create call
CreateFailContinues(r) ==
    /\ req[r].pc = "create"
    /\ fails < MaxFail
    /\ fails' = fails + 1
    /\ Proceed(r, [req[r] EXCEPT !.k = @ + 1],
               [calls[r] EXCEPT ![Len(calls[r])].status = "failed"])
    /\ UNCHANGED <<dbs, pages, cache, cacheSets, encIn, encOut>>

\* the create call in flight fails: the handler's catch answers 500
CreateFail(r) ==
    /\ req[r].pc = "create"
    /\ fails < MaxFail
    /\ fails' = fails + 1
    /\ req' = [req EXCEPT ![r] = Failed(@)]
    /\ calls' = [calls EXCEPT ![r][Len(calls[r])].status = "failed"]
    /\ UNCHANGED <<dbs, pages, cache, cacheSets, encIn, encOut>>

NoEnc == [fn |-> "none"]

Init ==
    /\ dbs \in Schemas
    /\ pages = {}
    /\ cache = NoMetas
    /\ cacheSets = [id \in DbIds |-> 0]
    /\ req = [r \in Req |-> IdleReq]
    /\ calls = [r \in Req |-> << >>]
    /\ fails = 0
    /\ encIn = NoEnc
    /\ encOut = << >>

Next ==
    \E r \in Req :
        \/ Receive(r)
        \/ MemoryOk(r)
        \/ MemoryFail(r)
        \/ ModelFail(r)
        \/ ModelBadJson(r)
        \/ ModelOk(r)
        \/ \E id \in DbIds : RetrieveOk(r, id)
        \/ \E id \in DbIds : RetrieveFail(r, id)
        \/ CreateOk(r)
        \/ CreateFail(r)

Spec == Init /\ [][Next]_vars

NextSeq ==
    \E r \in Req :
        \/ ReceiveSeq(r)
        \/ MemoryOk(r)
        \/ MemoryFail(r)
        \/ ModelFail(r)
        \/ ModelBadJson(r)
        \/ ModelOkSeq(r)
        \/ \E id \in DbIds : RetrieveOk(r, id)
        \/ \E id \in DbIds : RetrieveFail(r, id)
        \/ CreateOk(r)
        \/ CreateFail(r)

SpecSeq == Init /\ [][NextSeq]_vars

-----------------------------------------------------------------------------
(* POST /run, second variant of the file: property names are constants of the
   file, and no schema is looked up *)

PROP_J_TITLE == "Nom"
PROP_J_DATE == "Date"
PROP_J_DECISION == "Decision prise"
PROP_J_AGENTS == "Agents mobilises"
PROP_J_RESULT == "Resultat produit"
PROP_J_NEXT == "Prochaine action"
PROP_P_TITLE == "Nom"
PROP_P_STATUS == "Statut"
PROP_P_PRIORITY == "Priorite"
PROP_P_OBJECTIF == "Objectif"
PROP_P_NEXT == "Prochaines actions"
PROP_P_UPDATED == "Derniere MAJ"
PROP_S_TITLE == "Nom"
PROP_S_DATE == "Date"
PROP_S_DECISION == "Decision"
PROP_S_CONTEXTE == "Contexte"
PROP_S_RATIONALE == "Rationale"
PROP_S_STATUS == "Statut"

\* the text of the journal's decision property (line 682), shortened
RunDirecteur == <<"R", "u", "n", " ", "D", "i", "r", "e", "c", "t", "e", "u", "r">>
\* the agent names of line 683
Agents ==
    <<Str(Directeur), Str(<<"F", "o", "r", "m", "a", "t", "i", "o", "n">>), Str(<<"P", "r", "o", "c", "e", "s", "s">>), Str(<<"P", "r", "o", "d", "u", "i", "t">>),
      Str(<<"V", "e", "n", "t", "e">>), Str(<<"C", "o", "m", "m", "u", "n", "i", "c", "a", "t", "i", "o", "n">>), Str(<<"V", "e", "i", "l", "l", "e">>), Str(<<"Q", "u", "a", "l", "i", "t", "e">>)>>
Decision == <<"D", "e", "c", "i", "s", "i", "o", "n">>
Projet == <<"P", "r", "o", "j", "e", "t">>
Active == <<"A", "c", "t", "i", "v", "e">>

\* writeJournal's property set
JournalPropsB(demande_client, data) ==
    LET p0 == Put(NoProps, PROP_J_TITLE,
                  title(Str(Slice(ToStr(OrElse(demande_client, Str(RunIA))), 90))))
        p1 == setIf(p0, PROP_J_DATE, dateProp(NowIso))
        p2 == setIf(p1, PROP_J_DECISION, rt(Str(RunDirecteur)))
        p3 == setIf(p2, PROP_J_AGENTS, multiSelect(Arr(Agents)))
        p4 == setIf(p3, PROP_J_RESULT, rt(OrElse(Get(data, "livrable_final"), Empty)))
    IN  setIf(p4, PROP_J_NEXT, rt(NextActions(data)))

\* writeDecisions' property set of one item
DecisionPropsB(it) ==
    LET p0 == Put(NoProps, PROP_S_TITLE, title(OrElse(Get(it, "titre"), Str(Decision))))
        p1 == setIf(p0, PROP_S_DATE, dateProp(NowIso))
        p2 == setIf(p1, PROP_S_DECISION, rt(OrElse(Get(it, "decision"), Empty)))
        p3 == setIf(p2, PROP_S_CONTEXTE, rt(OrElse(Get(it, "contexte"), Empty)))
        p4 == setIf(p3, PROP_S_RATIONALE, rt(OrElse(Get(it, "rationale"), Empty)))
    IN  setIf(p4, PROP_S_STATUS, select(OrElse(Get(it, "statut"), Str(Active))))

\* writeProjects' property set of one item
ProjetPropsB(it) ==
    LET p0 == Put(NoProps, PROP_P_TITLE, title(OrElse(Get(it, "titre"), Str(Projet))))
        p1 == setIf(p0, PROP_P_STATUS, select(Get(it, "statut")))
        p2 == setIf(p1, PROP_P_PRIORITY, select(Get(it, "priorite")))
        p3 == setIf(p2, PROP_P_OBJECTIF, rt(OrElse(Get(it, "objectif"), Empty)))
        p4 == setIf(p3, PROP_P_NEXT, rt(OrElse(Get(it, "prochaines_actions"), Empty)))
    IN  setIf(p4, PROP_P_UPDATED, dateProp(NowIso))

\* the items a write function loops over: none unless it is given an array
ItemsOf(x) == IF x.t = "array" THEN x.v ELSE << >>

\* the steps of the second variant after the model's output parsed: the journal's
\* create call; then writeDoctrine, which on its first item reads the undeclared
\* PROP_D_STATUS and throws before any create call; then the decisions and the projets
WritesB(data) ==
    LET e == OrElse(Get(data, "ecritures_notion"), NoData)
        doc == ItemsOf(OrElse(Get(e, "doctrine"), Arr(<< >>)))
        dec == ItemsOf(OrElse(Get(e, "decisions"), Arr(<< >>)))
        prj == ItemsOf(OrElse(Get(e, "projets"), Arr(<< >>)))
    IN  <<[db |-> DB_JOURNAL, item |-> NoData, throws |-> FALSE]>>
        \o (IF Len(doc) > 0
            THEN <<[db |-> DB_DOCTRINE, item |-> doc[1], throws |-> TRUE]>>
            ELSE [i \in 1..Len(dec) |-> [db |-> DB_DECISIONS, item |-> dec[i], throws |-> FALSE]]
                 \o [i \in 1..Len(prj) |-> [db |-> DB_PROJETS, item |-> prj[i], throws |-> FALSE]])

WritePropsB(w, demande_client, data) ==
    CASE w.db = DB_JOURNAL -> JournalPropsB(demande_client, data)
      [] w.db = DB_DECISIONS -> DecisionPropsB(w.item)
      [] w.db = DB_PROJETS -> ProjetPropsB(w.item)

DemandesB == {Undef, Str(<<"q">>)}

ItemDecisionB == [titre |-> Empty, decision |-> Str(<<"x">>), contexte |-> Str(<<"c">>)]
ItemProjetB == [titre |-> Str(<<"P">>), statut |-> Str(OptC), objectif |-> Str(<<"o">>)]

DataOfB(doctrine, decisions, projets) ==
    [livrable_final |-> Str(<<"L">>), prochaines_actions |-> Arr(<<Str(<<"x">>)>>),
     ecritures_notion |->
        [doctrine |-> Arr(doctrine), decisions |-> Arr(decisions), projets |-> Arr(projets)]]

DataChoicesB ==
    {DataOfB(<< >>, << >>, << >>),
     DataOfB(<< >>, <<ItemDecisionB>>, <<ItemProjetB>>),
     DataOfB(<<ItemDoctrineA>>, <<ItemDecisionB>>, << >>),
     [livrable_final |-> Str(<<"L">>)]}

\* a record of the doctrine database that exists before the process starts
OldDoctrinePage ==
    [db |-> DB_DOCTRINE, props |-> Put(NoProps, "Nom", title(Str(<<"T">>))), by |-> 0, n |-> 1]

ProceedB(r, rq, log) ==
    LET ws == WritesB(rq.data)
    IN  IF rq.k < Len(ws)
        THEN IF ws[rq.k + 1].throws
             THEN /\ req' = [req EXCEPT ![r] = Failed(rq)]
                  /\ calls' = [calls EXCEPT ![r] = log]
             ELSE /\ req' = [req EXCEPT ![r] = [rq EXCEPT !.pc = "create"]]
                  /\ calls' = [calls EXCEPT ![r] =
                        Append(log, CreateCall(ws[rq.k + 1].db,
                            WritePropsB(ws[rq.k + 1], rq.demande_client, rq.data)))]
        ELSE /\ req' = [req EXCEPT ![r] = Answered(rq, "ok")]
             /\ calls' = [calls EXCEPT ![r] = log]

\* the request arrives; loadMemorySnapshot issues its three queries
ReceiveB(r) ==
    /\ r <= NumSeq
    /\ \A q \in Req : q < r => req[q].pc = "done"
    /\ Accept(r, DemandesB)

\* the three queries answered; with a doctrine record to compact, loadMemorySnapshot
\* reads the undeclared PROP_D_STATUS and throws; otherwise the model is called
MemoryOkB(r) ==
    /\ req[r].pc = "memory"
    /\ IF \E p \in pages : p.db = DB_DOCTRINE
       THEN req' = [req EXCEPT ![r] = Failed(@)] /\ UNCHANGED calls
       ELSE /\ req' = [req EXCEPT ![r].pc = "model"]
            /\ calls' = [calls EXCEPT ![r] = Append(@, ModelCall)]
    /\ UNCHANGED <<dbs, pages, cache, cacheSets, fails, encIn, encOut>>

\* the output parses: writeJournal issues its create call
ModelOkB(r) ==
    /\ req[r].pc = "model"
    /\ \E d \in DataChoicesB : ProceedB(r, [req[r] EXCEPT !.data = d], calls[r])
    /\ UNCHANGED <<dbs, pages, cache, cacheSets, fails, encIn, encOut>>

\* the create call in flight succeeds: the record is in the store
CreateOkB(r) ==
    /\ req[r].pc = "create"
    /\ LET n == Len(calls[r])
           c == calls[r][n]
       IN  /\ pages' = pages \cup {[db |-> c.db, props |-> c.props, by |-> r, n |-> req[r].k + 1]}
           /\ ProceedB(r, [req[r] EXCEPT !.k = @ + 1], [calls[r] EXCEPT ![n].status = "ok"])
    /\ UNCHANGED <<dbs, cache, cacheSets, fails, encIn, encOut>>

InitB ==
    /\ dbs \in Schemas
    /\ pages \in {{}, {OldDoctrinePage}}
    /\ cache = NoMetas
    /\ cacheSets = [id \in DbIds |-> 0]
    /\ req = [r \in Req |-> IdleReq]
    /\ calls = [r \in Req |-> << >>]
    /\ fails = 0
    /\ encIn = NoEnc
    /\ encOut = << >>

NextB ==
    \E r \in Req :
        \/ ReceiveB(r)
        \/ MemoryOkB(r)
        \/ MemoryFail(r)
        \/ ModelFail(r)
        \/ ModelBadJson(r)
        \/ ModelOkB(r)
        \/ CreateOkB(r)
        \/ CreateFail(r)

SpecB == InitB /\ [][NextB]_vars

-----------------------------------------------------------------------------
(* The encoders on their own: an input is drawn, the encoder is applied, and a text
   encoder is applied once more to the content it produced *)

Text(n, p) == [i \in 1..n |-> IF (i + p) % 2 = 0 THEN "a" ELSE "b"]

TextLens ==
    {0, 1, TITLE_MAX - 1, TITLE_MAX, TITLE_MAX + 1, TITLE_MAX + Extra,
     RICH_MAX - 1, RICH_MAX, RICH_MAX + 1, RICH_MAX + Extra}

TextInputs ==
    {Str(Text(n, p)) : n \in TextLens, p \in 0..1} \cup {Null, Undef, Bool(TRUE), Num(12)}

EncMetas ==
    {MetaOf(<<Def("Name", "title", << >>), Def("Type", "select", <<OptA, OptB>>),
              Def("Tags", "multi_select", <<OptA, OptB>>)>>),
     MetaOf(<<Def("Name", "title", << >>), Def("Type", "select", << >>),
              Def("Tags", "multi_select", <<OptB>>)>>),
     MetaOf(<<Def("Type", "rich_text", << >>), Def("Name", "title", << >>)>>),
     MetaOf(<<Def("Name", "title", << >>)>>)}

ScalarInputs == {Str(OptA), Str(OptC), Empty, Null, Undef, Num(1), Bool(TRUE)}

ListInputs ==
    {Arr(a) : a \in UNION {[1..n -> {Str(OptA), Str(OptB), Str(OptC), Num(1)}] : n \in 0..MaxLen}}
    \cup {Null, Undef, Str(OptA)}

EncInputs ==
    [fn : {"titleProp", "rich", "title", "rt"}, text : TextInputs]
    \cup [fn : {"safeSelect"}, meta : EncMetas, prop : {"Type", "Tags"}, value : ScalarInputs]
    \cup [fn : {"safeMultiSelect"}, meta : EncMetas, prop : {"Type", "Tags"}, values : ListInputs]
    \cup [fn : {"doctrine"}, meta : EncMetas, item : {ItemDoctrineA, ItemDoctrineE}]

\* the content of a title or rich_text value
Content(v) == IF "title" \in DOMAIN v THEN v.title[1].text.content ELSE v.rich_text[1].text.content

\* the text the encoder is applied to: the input, then the content it produced
EncText == IF Len(encOut) = 0 THEN encIn.text ELSE Str(Content(encOut[1]))

ApplyText(fn, out) ==
    /\ encIn.fn = fn
    /\ Len(encOut) < 2
    /\ encOut' = Append(encOut, out)
    /\ UNCHANGED <<dbs, pages, cache, cacheSets, req, calls, fails, encIn>>

ApplyTitleProp == ApplyText("titleProp", titleProp(EncText, TITLE_MAX))
ApplyRich == ApplyText("rich", rich(EncText, RICH_MAX))
ApplyTitle == ApplyText("title", title(EncText))
ApplyRt == ApplyText("rt", rt(EncText))

ApplyOnce(fn, out) ==
    /\ encIn.fn = fn
    /\ Len(encOut) = 0
    /\ encOut' = <<out>>
    /\ UNCHANGED <<dbs, pages, cache, cacheSets, req, calls, fails, encIn>>

ApplySafeSelect == ApplyOnce("safeSelect", safeSelect(encIn.meta, encIn.prop, encIn.value))
ApplySafeMultiSelect ==
    ApplyOnce("safeMultiSelect", safeMultiSelect(encIn.meta, encIn.prop, encIn.values))
ApplyDoctrineProps == ApplyOnce("doctrine", DoctrineProps(encIn.meta, encIn.item))

InitEnc ==
    /\ dbs = SchemaFull
    /\ pages = {}
    /\ cache = NoMetas
    /\ cacheSets = [id \in DbIds |-> 0]
    /\ req = [r \in Req |-> IdleReq]
    /\ calls = [r \in Req |-> << >>]
    /\ fails = 0
    /\ encIn \in EncInputs
    /\ encOut = << >>

NextEnc ==
    \/ ApplyTitleProp
    \/ ApplyRich
    \/ ApplyTitle
    \/ ApplyRt
    \/ ApplySafeSelect
    \/ ApplySafeMultiSelect
    \/ ApplyDoctrineProps

SpecEnc == InitEnc /\ [][NextEnc]_vars

-----------------------------------------------------------------------------
(* Observations on the call logs *)

CreateIdx(r) == {i \in 1..Len(calls[r]) : calls[r][i].op = "create"}

\* how many retrieve calls were issued for a database, over all requests
Retrieves(id) ==
    Cardinality(UNION {{<<r, i>> : i \in {j \in 1..Len(calls[r]) : calls[r][j] = RetrieveCall(id)}} :
                       r \in Req})

\* how many getDbMeta calls wait for their retrieve of a database
Pending(id) == Cardinality({r \in Req : req[r].lk[id] = "wait"})

\* the position of call i among the create calls of its request
CreateOrdinal(r, i) == Cardinality({m \in CreateIdx(r) : m <= i})

NoTitleProperty(entries) == \A i \in 1..Len(entries) : entries[i].type # "title"

-----------------------------------------------------------------------------
(* C1 *)

\* C1: once the cache holds the meta of a database, the entry stays and stays the
\* same, no further retrieve call is issued for that database, and every getDbMeta
\* call answered from then on holds the stored meta.
C1_FetchOnce ==
    [][\A id \in DbIds :
        id \in DOMAIN cache =>
            /\ id \in DOMAIN cache'
            /\ cache'[id] = cache[id]
            /\ Retrieves(id)' = Retrieves(id)
            /\ \A r \in Req :
                id \in DOMAIN req'[r].metas => req'[r].metas[id] = cache[id]]_vars

\* a request whose lookup of a database was answered from the cache, without a retrieve
C1_Witness ==
    \E r \in Req, id \in DbIds :
        /\ req[r].pc = "create"
        /\ id \in DOMAIN req[r].metas
        /\ \A i \in 1..Len(calls[r]) : calls[r][i] # RetrieveCall(id)
        /\ Retrieves(id) = 1

-----------------------------------------------------------------------------
(* C6 *)

\* C6: a record write for a title that already exists in the database is an update:
\* no create call is issued for a title the database already holds.
C6_NoCreateForExistingTitle ==
    \A r \in Req : \A i \in CreateIdx(r) : ~calls[r][i].existed

-----------------------------------------------------------------------------
(* C7 *)

\* C7: every create call has a title property, and its content is not empty.
C7_TitleNeverEmpty ==
    \A r \in Req : \A i \in CreateIdx(r) :
        /\ \E k \in DOMAIN calls[r][i].props : "title" \in DOMAIN calls[r][i].props[k]
        /\ Len(TitleOf(calls[r][i].props)) > 0

-----------------------------------------------------------------------------
(* C8 *)

\* C8: a database without title-typed property never gets a meta (its getDbMeta
\* calls throw), a request one of whose schema lookups failed answers with the
\* failure and issues no create call, and create calls are issued only by requests
\* that hold the meta of all four databases.
C8_SchemaErrorAborts ==
    /\ \A id \in DbIds :
        NoTitleProperty(dbs[id]) =>
            /\ id \notin DOMAIN cache
            /\ \A r \in Req : id \notin DOMAIN req[r].metas /\ req[r].lk[id] # "ok"
    /\ \A r \in Req :
        (\E id \in DbIds : req[r].lk[id] = "err") =>
            req[r].res = "fail" /\ CreateIdx(r) = {}
    /\ \A r \in Req :
        /\ req[r].pc = "create" => DOMAIN req[r].metas = DbIds
        /\ CreateIdx(r) # {} => \A id \in DbIds : ~NoTitleProperty(dbs[id])

\* a request failed on the database without title after another of its lookups stored a meta
C8_Witness ==
    \E r \in Req, id \in DbIds :
        /\ NoTitleProperty(dbs[id])
        /\ req[r].lk[id] = "err"
        /\ req[r].res = "fail"
        /\ \E other \in DbIds : other \in DOMAIN cache

-----------------------------------------------------------------------------
(* C9 *)

\* C9: a failed create call is the last call of its request and the request has
\* answered with the failure; the create calls before it succeeded and their records
\* are in the store.
C9_NoRollbackNoRetry ==
    \A r \in Req : \A i \in CreateIdx(r) :
        calls[r][i].status = "failed" =>
            /\ i = Len(calls[r])
            /\ req[r].pc = "done" /\ req[r].res = "fail"
            /\ req[r].k = CreateOrdinal(r, i) - 1
            /\ \A j \in CreateIdx(r) :
                j < i =>
                    /\ calls[r][j].status = "ok"
                    /\ [db |-> calls[r][j].db, props |-> calls[r][j].props,
                        by |-> r, n |-> CreateOrdinal(r, j)] \in pages

\* the third create call of a request failed, after two records were created
C9_Witness ==
    \E r \in Req : \E i \in CreateIdx(r) :
        /\ calls[r][i].status = "failed"
        /\ CreateOrdinal(r, i) = 3
        /\ Cardinality({p \in pages : p.by = r}) = 2

-----------------------------------------------------------------------------
(* C10 *)

\* C10, as stated: the cache entry of a database is written at most once.
C10_WrittenAtMostOnce == \A id \in DbIds : cacheSets[id] <= 1

\* C10, amended: the cache entry of a database is written at most once per retrieve
\* issued for it, and once the entry is present only the getDbMeta calls that were
\* already waiting for their retrieve write it again: no call that starts later does.
C10_WrittenOncePerPendingFetch ==
    /\ [](\A id \in DbIds : cacheSets[id] + Pending(id) <= Retrieves(id))
    /\ [][\A id \in DbIds :
            id \in DOMAIN cache =>
                cacheSets'[id] + Pending(id)' <= cacheSets[id] + Pending(id)]_vars

\* two interleaved first-time lookups both wrote the entry of one database
C10_Witness == \E id \in DbIds : cacheSets[id] = 2 /\ Retrieves(id) = 2

-----------------------------------------------------------------------------
(* C3 *)

IsNull(v) == "t" \in DOMAIN v /\ v.t = "null"

\* C3: safeSelect returns a selection of the value only when the property has an
\* option set that contains the value, and null otherwise; the doctrine property set
\* has a Type only when the category is an option of Type.
C3_SelectNeverInvents ==
    /\ (encIn.fn = "safeSelect" /\ Len(encOut) = 1) =>
        LET known == /\ encIn.prop \in DOMAIN encIn.meta.selectOptions
                     /\ encIn.value.t = "string"
                     /\ Len(encIn.value.v) > 0
                     /\ encIn.value.v \in encIn.meta.selectOptions[encIn.prop]
        IN  IF known THEN encOut[1] = [select |-> [name |-> encIn.value]]
            ELSE IsNull(encOut[1])
    /\ (encIn.fn = "doctrine" /\ Len(encOut) = 1) =>
        /\ "Type" \in DOMAIN encOut[1] =>
            /\ "Type" \in DOMAIN encIn.meta.selectOptions
            /\ encIn.item.categorie.v \in encIn.meta.selectOptions["Type"]
            /\ encOut[1]["Type"] = [select |-> [name |-> encIn.item.categorie]]
        /\ \A k \in DOMAIN encOut[1] : ~IsNull(encOut[1][k])

\* options {A, B} and the category C: the property set holds the title only
C3_Witness ==
    /\ encIn.fn = "doctrine"
    /\ Len(encOut) = 1
    /\ encIn.item.categorie = Str(OptC)
    /\ "Type" \in DOMAIN encIn.meta.selectOptions
    /\ encIn.meta.selectOptions["Type"] = {OptA, OptB}
    /\ DOMAIN encOut[1] = {"Name"}

-----------------------------------------------------------------------------
(* C4 *)

RECURSIVE Members(_, _)
\* the reference filter: the values of a list that are in a set, in their order
Members(list, set) ==
    IF Len(list) = 0 THEN << >>
    ELSE IF list[1].t = "string" /\ list[1].v \in set
         THEN <<list[1]>> \o Members(Tail(list), set)
         ELSE Members(Tail(list), set)

\* C4: safeMultiSelect returns the values of the input list that are options of the
\* property, in their order, and null when there is none or no option set.
C4_MultiSelectIsFilter ==
    (encIn.fn = "safeMultiSelect" /\ Len(encOut) = 1) =>
        IF encIn.values.t = "array" /\ encIn.prop \in DOMAIN encIn.meta.selectOptions
        THEN LET m == Members(encIn.values.v, encIn.meta.selectOptions[encIn.prop])
             IN  IF Len(m) = 0 THEN IsNull(encOut[1])
                 ELSE /\ ~IsNull(encOut[1])
                      /\ Len(encOut[1].multi_select) = Len(m)
                      /\ \A i \in 1..Len(m) : encOut[1].multi_select[i].name = m[i]
        ELSE IsNull(encOut[1])

\* options {A, B} and the input [A, C] give [A]
C4_Witness ==
    /\ encIn.fn = "safeMultiSelect"
    /\ Len(encOut) = 1
    /\ encIn.values = Arr(<<Str(OptA), Str(OptC)>>)
    /\ encIn.prop \in DOMAIN encIn.meta.selectOptions
    /\ encIn.meta.selectOptions[encIn.prop] = {OptA, OptB}
    /\ encOut[1] = [multi_select |-> <<[name |-> Str(OptA)]>>]

-----------------------------------------------------------------------------
(* C5 *)

\* C5: the content titleProp and title produce has at most 120 characters, the
\* content rich and rt produce at most 1900; an input string is cut to its first
\* characters, and returned whole when it is within the maximum; encoding the
\* produced content again gives the same content.
C5_TruncationBoundedIdempotent ==
    (encIn.fn \in {"titleProp", "rich", "title", "rt"} /\ Len(encOut) >= 1) =>
        LET max == IF encIn.fn \in {"titleProp", "title"} THEN 120 ELSE 1900
            out == Content(encOut[1])
        IN  /\ Len(out) <= max
            /\ encIn.text.t = "string" =>
                /\ Len(out) <= Len(encIn.text.v)
                /\ out = SubSeq(encIn.text.v, 1, Len(out))
                /\ Len(encIn.text.v) <= max => out = encIn.text.v
                /\ Len(encIn.text.v) > max => Len(out) = max
            /\ Len(encOut) = 2 => encOut[2] = encOut[1]

\* a text longer than 1900 was cut by rich, and the cut text encoded again
C5_Witness ==
    /\ encIn.fn = "rich"
    /\ encIn.text.t = "string"
    /\ Len(encIn.text.v) > 1900
    /\ Len(encOut) = 2
    /\ Len(Content(encOut[2])) = 1900

-----------------------------------------------------------------------------
(* C2 *)

\* the type of a property value: the one key of the value
PayloadType(v) == CHOOSE f \in DOMAIN v : TRUE

\* C2: every key of the property set of a create call is the name of a property of
\* the target database, whose type is the type of the value sent.
C2_OnlySchemaFields ==
    \A r \in Req : \A i \in CreateIdx(r) :
        \A k \in DOMAIN calls[r][i].props :
            \E j \in 1..Len(dbs[calls[r][i].db]) :
                /\ dbs[calls[r][i].db][j].name = k
                /\ dbs[calls[r][i].db][j].type = PayloadType(calls[r][i].props[k])

-----------------------------------------------------------------------------
(* C11 *)

\* C11: with the external schema unchanged, whatever the number of fetches of a
\* database, the cache holds for it the meta a single fetch of its schema builds,
\* and every getDbMeta call that returned holds a meta equal to the cached one.
C11_BenignRace ==
    \A id \in DOMAIN cache :
        /\ cache[id] = MetaOf(dbs[id])
        /\ \A r \in Req : id \in DOMAIN req[r].metas => req[r].metas[id] = cache[id]

\* two requests both fetched one database, both wrote its entry, and both hold its meta
C11_Witness ==
    \E id \in DbIds : \E r1, r2 \in Req :
        /\ r1 # r2
        /\ RetrieveCall(id) \in {calls[r1][i] : i \in 1..Len(calls[r1])}
        /\ RetrieveCall(id) \in {calls[r2][i] : i \in 1..Len(calls[r2])}
        /\ cacheSets[id] = 2
        /\ id \in DOMAIN req[r1].metas /\ id \in DOMAIN req[r2].metas
        /\ req[r1].metas[id] = req[r2].metas[id]

-----------------------------------------------------------------------------
(* C12 *)

\* C12: a request whose model call returned a text that is not JSON has answered
\* with the failure, the model call is its last call, and it issued no create call.
C12_BadJsonNoWrite ==
    \A r \in Req :
        (\E i \in 1..Len(calls[r]) : calls[r][i] = NotJson) =>
            /\ req[r].pc = "done" /\ req[r].res = "fail"
            /\ calls[r][Len(calls[r])] = NotJson
            /\ CreateIdx(r) = {}

\* a request got a text that is not JSON from the model and answered
C12_Witness ==
    \E r \in Req :
        /\ calls[r] # << >>
        /\ calls[r][Len(calls[r])] = NotJson
        /\ req[r].res = "fail"

-----------------------------------------------------------------------------
(* C13 *)

\* the place of a database in the order journal, doctrine, decisions, projets
Rank(db) ==
    CASE db = DB_JOURNAL -> 1 [] db = DB_DOCTRINE -> 2 [] db = DB_DECISIONS -> 3 [] db = DB_PROJETS -> 4

\* the array of the model's output whose items go to a database
ItemsFor(data, db) ==
    LET e == Get(data, "ecritures_notion")
    IN  CASE db = DB_DOCTRINE -> ArrOf(Get(e, "doctrine"))
          [] db = DB_DECISIONS -> ArrOf(Get(e, "decisions"))
          [] db = DB_PROJETS -> ArrOf(Get(e, "projets"))

CreatesFor(r, db) == {i \in CreateIdx(r) : calls[r][i].db = db}

\* the calls of a request are: the three memory queries, the model call, retrieve
\* calls, create calls, in that order; only the last call is in flight
CallOrder(r) ==
    LET log == calls[r]
        Stage(c) == CASE c.op = "query" -> 1 [] c.op = "model" -> 2
                      [] c.op = "retrieve" -> 3 [] c.op = "create" -> 4
    IN  /\ \A i, j \in 1..Len(log) : i < j => Stage(log[i]) <= Stage(log[j])
        /\ Len(log) > 0 => Len(log) >= 3 /\ \A i \in 1..3 : log[i].op = "query"
        /\ \A i \in 1..Len(log) : log[i].op = "model" => i = 4
        /\ req[r].pc = "memory" => Len(log) = 3
        /\ req[r].pc = "model" => Len(log) = 4
        /\ \A i \in CreateIdx(r) : i < Len(log) => log[i].status = "ok"

\* the create calls of a request go to the journal once, first, then to the doctrine,
\* the decisions and the projets, and the m-th create call of a database carries the
\* title of the m-th item of its array
CreateOrder(r) ==
    LET log == calls[r]
    IN  /\ \A i, j \in CreateIdx(r) : i < j => Rank(log[i].db) <= Rank(log[j].db)
        /\ Cardinality(CreatesFor(r, DB_JOURNAL)) <= 1
        /\ CreateIdx(r) # {} => CreatesFor(r, DB_JOURNAL) # {}
        /\ req[r].pc = "create" =>
            /\ \A id \in DbIds : req[r].lk[id] = "ok" /\ id \in DOMAIN req[r].metas
            /\ \A db \in DbIds \ {DB_JOURNAL} : \A i \in CreatesFor(r, db) :
                LET m == Cardinality({j \in CreatesFor(r, db) : j <= i})
                    items == ItemsFor(req[r].data, db)
                IN  /\ m <= Len(items)
                    /\ TitleOf(log[i].props)
                        = titleProp(items[m].titre, TITLE_MAX).title[1].text.content

\* a request answers {ok: true} when one create call for the journal and one for each
\* item of the three arrays have succeeded, and only then
OkAfterAllWrites(r) ==
    (req[r].res = "none" /\ req'[r].res = "ok") =>
        LET log == calls'[r]
            created == {i \in 1..Len(log) : log[i].op = "create"}
            n(db) == Cardinality({i \in created : log[i].db = db})
        IN  /\ \A i \in created : log[i].status = "ok"
            /\ n(DB_JOURNAL) = 1
            /\ \A db \in DbIds \ {DB_JOURNAL} : n(db) = Len(ItemsFor(req[r].data, db))
            /\ Cardinality({p \in pages' : p.by = r}) = Cardinality(created)

\* C13: in one request the memory queries come before the model call, the model call
\* before every schema lookup and write, the four schema lookups have succeeded before
\* the first create call, the create calls are issued one after the other in the order
\* journal, doctrine items, decision items, projet items (each in array order), and
\* {ok: true} is answered only after all 1 + |doctrine| + |decisions| + |projets|
\* create calls succeeded.
C13_RunOrder ==
    /\ [](\A r \in Req : CallOrder(r) /\ CreateOrder(r))
    /\ [][\A r \in Req : OkAfterAllWrites(r)]_vars

\* a request answered {ok: true} after its four create calls: journal, doctrine,
\* decisions, projets
C13_Witness ==
    \E r \in Req :
        /\ req[r].res = "ok"
        /\ Cardinality(CreateIdx(r)) = 4
        /\ \A db \in DbIds : CreatesFor(r, db) # {}

-----------------------------------------------------------------------------
(* C14 *)

\* a request that is under way waits for an external call, so that it comes to answer
Waiting(r) ==
    /\ req[r].pc = "lookups" => \E id \in DbIds : req[r].lk[id] = "wait"
    /\ req[r].pc = "create" =>
        /\ calls[r] # << >>
        /\ calls[r][Len(calls[r])].op = "create"
        /\ calls[r][Len(calls[r])].status = "inflight"

\* C14: once a create call of a request failed, the request issues no further create
\* call and has answered {ok: false}; a request answers exactly once: it has answered
\* exactly when it is done, until then it waits for a call, and after its answer the
\* answer never changes and the request issues no further call.
C14_FailedWriteStops ==
    /\ [](\A r \in Req :
            /\ \A i \in CreateIdx(r) :
                calls[r][i].status = "failed" =>
                    /\ \A j \in CreateIdx(r) : j <= i
                    /\ req[r].res = "fail"
            /\ req[r].res \in {"none", "ok", "fail"}
            /\ req[r].pc = "done" <=> req[r].res # "none"
            /\ Waiting(r))
    /\ [][\A r \in Req :
            req[r].res # "none" =>
                /\ req'[r].res = req[r].res
                /\ req'[r].pc = "done"
                /\ calls'[r] = calls[r]]_vars

\* the journal's create call of a request failed while a doctrine item was still to
\* be written, and the request answered {ok: false}
C14_Witness ==
    \E r \in Req :
        /\ Cardinality(CreateIdx(r)) = 1
        /\ \A i \in CreateIdx(r) : calls[r][i].status = "failed" /\ calls[r][i].db = DB_JOURNAL
        /\ req[r].res = "fail"

-----------------------------------------------------------------------------
(* C15 *)

\* the getDbMeta call of request r for a database ends in this step with a failure:
\* its retrieve failed, or the database has no title property
LookupFails(r, id) ==
    /\ req[r].lk[id] = "wait"
    /\ req'[r].lk[id] # "wait"
    /\ fails' # fails \/ NoTitleProperty(dbs[id])

\* the getDbMeta calls of request r start in this step
LookupsStart(r) == req[r].pc = "model" /\ req'[r].pc \in {"lookups", "create"}

\* C15: a getDbMeta call that fails changes no cache entry and stores none; the cache
\* holds only complete metas, none for a database without title property; and a
\* request that starts its lookups issues a retrieve for every database the cache
\* does not hold, whatever failed before.
C15_FailedLookupLeavesCache ==
    /\ [](\A id \in DOMAIN cache :
            /\ ~NoTitleProperty(dbs[id])
            /\ DOMAIN cache[id] = {"titleProp", "props", "selectOptions"}
            /\ cacheSets[id] > 0)
    /\ [][\A r \in Req :
            /\ \A id \in DbIds :
                LookupFails(r, id) => cache' = cache /\ cacheSets' = cacheSets
            /\ LookupsStart(r) =>
                \A id \in DbIds \ DOMAIN cache :
                    /\ req'[r].lk[id] = "wait"
                    /\ \E i \in (Len(calls[r]) + 1)..Len(calls'[r]) :
                        calls'[r][i] = RetrieveCall(id)]_vars

\* the lookup of a database by one request failed on its retrieve after the request
\* had stored another entry; the cache holds no entry for the database, and a request
\* that started its lookups with the other entry cached fetches the database afresh
C15_Witness ==
    \E r1, r2 \in Req : \E id, x \in DbIds :
        /\ r1 # r2 /\ id # x
        /\ req[r1].lk[id] = "err" /\ ~NoTitleProperty(dbs[id])
        /\ id \notin DOMAIN cache
        /\ x \in DOMAIN cache /\ cacheSets[x] = 1
        /\ req[r2].lk[id] = "wait"
        /\ \A i \in 1..Len(calls[r2]) : calls[r2][i] # RetrieveCall(x)

====
